---------------------------- MODULE Spec2Model ----------------------------
(***************************************************************************)
(* A model of metareview.py: the paginated Gerrit comments query           *)
(* (GerritAsyncClient.comments_query), the comment filter                  *)
(* (user_match, extract_comments), the formatter (format_comment) and the  *)
(* pipeline that writes every matching comment to the output stream        *)
(* (write_all_comments), with the try statement of main around it.         *)
(*                                                                         *)
(* Spec is one run of metareview; LiveSpec is that run under fairness.     *)
(* CallSpec calls user_match and extract_comments on their own, PairSpec   *)
(* runs GerritClient.comments_query beside the asynchronous one, TwoSpec   *)
(* interleaves two traversals of one GerritAsyncClient object.             *)
(*                                                                         *)
(* Text is modelled as a sequence of tokens: an identity is a sequence of  *)
(* characters (so that '@' in username is a search), a message is a        *)
(* sequence of words (so that the marker test is a sub-sequence search).   *)
(* A JSON object is a TLA+ record whose DOMAIN is the set of its keys.     *)
(***************************************************************************)
EXTENDS Integers, Sequences, FiniteSets, TLC

(***************************************************************************)
(* Bounds of the model.                                                    *)
(***************************************************************************)
\* most lines the server sends in one page
MaxLines == 2
\* most content records the server sends in one traversal
MaxYield == 2
\* the server keeps the offset counter within -1 .. MaxCount
MaxCount == 2
\* the command log keeps the first MaxCmds commands of a traversal
MaxCmds == 2

(***************************************************************************)
(* Text helpers.                                                           *)
(***************************************************************************)
\* x in s, for a character x and a string s
HasChar(x, s) == \E i \in 1..Len(s) : s[i] = x

\* sub in s, for strings: sub occurs in s as a contiguous run
Contains(sub, s) ==
    \E i \in 0..(Len(s) - Len(sub)) :
        \A j \in 1..Len(sub) : s[i + j] = sub[j]

RECURSIVE Join(_, _)
\* sep.join(parts)
Join(sep, parts) ==
    IF parts = <<>> THEN <<>>
    ELSE IF Len(parts) = 1 THEN parts[1]
    ELSE parts[1] \o sep \o Join(sep, Tail(parts))

(***************************************************************************)
(* The data the server can send.                                           *)
(***************************************************************************)
NameAlice == <<"a">>
MailAlice == <<"a", "@", "x">>
NameBob   == <<"b">>
MailBob   == <<"b", "@", "x">>

UAlice == [username |-> NameAlice, email |-> MailAlice]
UBob   == [username |-> NameBob, email |-> MailBob]

\* the literal of line 230
TrivialRebase == <<"Gerrit", "trivial", "rebase">>

MsgNit    == <<"nit">>
MsgReply  == <<"done">>
MsgRebase == <<"Gerrit", "trivial", "rebase", "detected">>
MsgLgtm   == <<"lgtm">>

\* a change owned by bob: alice comments twice, rebases once; bob replies
P1 == [url |-> "u1", owner |-> UBob,
       comments |-> << [reviewer |-> UAlice, message |-> MsgNit, timestamp |-> 1],
                       [reviewer |-> UBob, message |-> MsgReply, timestamp |-> 2],
                       [reviewer |-> UAlice, message |-> MsgRebase, timestamp |-> 3],
                       [reviewer |-> UAlice, message |-> MsgLgtm, timestamp |-> 4] >>]
\* a change owned by alice, with a comment of her own
P2 == [url |-> "u2", owner |-> UAlice,
       comments |-> << [reviewer |-> UAlice, message |-> MsgReply, timestamp |-> 5] >>]
\* a change without a comments field
P3 == [url |-> "u3", owner |-> UBob]

Patchsets == {P1, P2, P3}

\* rowCount values of a control record
RowCounts == {0 - 1, 0, 1, 2}

\* control records: a continuing one carries any rowCount
StatsRecords ==
    {[type |-> "stats", rowCount |-> n, moreChanges |-> TRUE] : n \in RowCounts}
    \cup {[type |-> "stats", rowCount |-> n, moreChanges |-> FALSE] : n \in {0, 1}}
    \cup {[type |-> "stats", rowCount |-> 1]}

\* a line of output that is no JSON text
BadLine == [garbage |-> TRUE]

\* the lines of a page: each the JSON text of an object, or garbage
ContentLines == {[json |-> r] : r \in Patchsets}
StatsLines == {[json |-> r] : r \in StatsRecords}
Lines == ContentLines \cup StatsLines \cup {BadLine}

\* what iterating output.stdout gives once the stream is exhausted
EOF == [eof |-> TRUE]
\* no line read yet in this page
NoLine == [none |-> TRUE]
\* no record held by the consumer
NoRecord == [none |-> TRUE]

\* exit statuses of the remote command
ExitStatuses == {0, 1}


(***************************************************************************)
(* Pure functions of the program.                                          *)
(***************************************************************************)
\* Python's None, among strings
None == <<"None">>

\* what json.loads raises on a line that is no JSON text
JSONDecodeError == [error |-> "JSONDecodeError"]

\* a faulty load_patchset: a line that does not parse gives an empty object
load_patchset_lenient(patchset_json) ==
    IF "json" \in DOMAIN patchset_json THEN patchset_json.json
    ELSE [empty |-> TRUE]

\* load_patchset: json.loads of one line
load_patchset(patchset_json) ==
    IF "json" \in DOMAIN patchset_json THEN patchset_json.json
    ELSE JSONDecodeError

\* a faulty test: a record without a type counts as a control record
IsStatsTypeless(record) == "type" \notin DOMAIN record \/ record.type = "stats"

\* a faulty test: no record counts as a control record
IsStatsNever(record) == FALSE

\* the test of lines 82 and 157
IsStats(record) == "type" \in DOMAIN record /\ record.type = "stats"

\* a faulty default: record.get('moreChanges', True)
MoreChangesDefaultTrue(record) ==
    IF "moreChanges" \in DOMAIN record THEN record.moreChanges ELSE TRUE

\* a faulty reading: moreChanges is taken as true whatever the record says
MoreChangesAlways(record) == TRUE

\* record.get('moreChanges', False)
MoreChanges(record) ==
    IF "moreChanges" \in DOMAIN record THEN record.moreChanges ELSE FALSE

\* a faulty update: count += 1, one row for each control record
AddOne(n, record) == n + 1

\* a faulty update: count = record['rowCount']
AssignRowCount(n, record) == record.rowCount

\* count += record['rowCount']
AddRowCount(n, record) == n + record.rowCount

\* a faulty test: the safety stop is missing
NeverNoProgress(n, prior) == FALSE

\* a faulty test: count < prior_count
NoProgressBelow(n, prior) == n < prior

\* the test of lines 88 and 163: the page left the offset where it was
NoProgress(n, prior) == n = prior

\* field_match, the inner function of user_match
field_match(user, username, field) ==
    IF field \notin DOMAIN user THEN FALSE
    ELSE user[field] = username

user_match(user, username) ==
    IF username = None THEN TRUE
    ELSE field_match(user, username,
                     IF HasChar("@", username) THEN "email" ELSE "username")

RECURSIVE SelectComments(_, _)
\* the loop of extract_comments over patchset['comments']
SelectComments(comments, author) ==
    IF comments = <<>> THEN <<>>
    ELSE LET comment == Head(comments)
             rest == SelectComments(Tail(comments), author)
         IN IF user_match(comment.reviewer, author)
               /\ ~Contains(TrivialRebase, comment.message)
            THEN <<comment>> \o rest
            ELSE rest

\* a faulty extract_comments: comments on one's own change are not skipped
extract_comments_own(patchset, author) ==
    IF "comments" \notin DOMAIN patchset THEN <<>>
    ELSE SelectComments(patchset.comments, author)

\* extract_comments: the comments the generator yields, in order
extract_comments(patchset, author) ==
    IF "comments" \notin DOMAIN patchset THEN <<>>
    ELSE IF author # None /\ user_match(patchset.owner, author) THEN <<>>
    ELSE SelectComments(patchset.comments, author)

\* datetime.datetime.fromtimestamp, rendered by '%s'
fromtimestamp(timestamp) == "date(" \o ToString(timestamp) \o ")"

\* format_comment: the text of one block
format_comment(patchset, comment, colored) ==
    LET header == <<patchset.url, " ", fromtimestamp(comment.timestamp)>>
        shown == IF colored THEN <<"\\033[96m">> \o header \o <<"\\033[39m">>
                 ELSE header
    IN shown \o <<"\n">> \o comment.message \o <<"\n", "\n">>

\* the keyword arguments of comments_query, as metareview passes them
Query(reviewer, project) == << <<"reviewer", reviewer>>, <<"project", project>> >>

\* ' '.join(':'.join(param) for param in query.items())
q_str(query) ==
    Join(<<" ">>, [i \in 1..Len(query) |-> <<query[i][1], ":">> \o query[i][2]])

\* a faulty command: every page asks for --start=0
QueryCmdFirstPage(q, start) ==
    [command |-> "gerrit query", query |-> <<"\"">> \o q \o <<"\"">>,
     comments |-> TRUE, format |-> "JSON", start |-> 0]

\* the command of lines 147-151
QueryCmd(q, start) ==
    [command |-> "gerrit query", query |-> <<"\"">> \o q \o <<"\"">>,
     comments |-> TRUE, format |-> "JSON", start |-> start]

\* the default of -p, line 277
Project == <<"openstack/heat">>

(***************************************************************************)
(* The state of one run of metareview.                                     *)
(***************************************************************************)
VARIABLES
    pc,           \* where comments_query stands, or how it ended
    client,       \* self.client, the ssh connection: "none", "open", "closed"
    count,        \* the offset counter of comments_query
    prior_count,  \* count as it was when the current page began
    query_cmd,    \* the command of the current page
    line,         \* the last item read from output.stdout
    nlines,       \* lines read from the current page
    exit_status,  \* exit status of the last command whose output ended
    patchset,     \* the record write_all_comments is working on
    todo,         \* comments extract_comments has still to yield for it
    stream,       \* the blocks written to the output stream
    username,     \* the reviewer given on the command line
    color,        \* pager.to_terminal()
    cmds,         \* log: the first MaxCmds commands issued
    sums,         \* log: for each logged command, rowTotal when it was issued
    rowTotal,     \* sum of the rowCount of every control record the server sent
    served,       \* content records the server sent that the driver read
    yielded,      \* records comments_query yielded
    exc,          \* the exception that unwinds asyncio.run, or "none"
    stderr,       \* what main wrote to sys.stderr
    returned,     \* main has left its try statement
    call,         \* a call of user_match or extract_comments on its own
    pair,         \* the two clients side by side: a traversal of each
    obj           \* one GerritAsyncClient object and two traversals of it

\* the state of a run of metareview
runVars == <<pc, client, count, prior_count, query_cmd, line, nlines,
             exit_status, patchset, todo, stream, username, color, cmds, sums,
             rowTotal, served, yielded, exc, stderr, returned>>

\* the state a run of metareview has no part in
sideVars == <<call, pair, obj>>

vars == <<runVars, sideVars>>

driverVars == <<pc, client, count, prior_count, query_cmd, line, nlines,
                exit_status, cmds, sums, rowTotal, served, yielded>>

\* no command issued yet
NoCmd == [none |-> TRUE]
\* the command has not exited
NotExited == 0 - 1

\* the ways a traversal ends: end of the sequence, an exception, the task
\* cancelled, the generator closed after the consumer gave it up
Terminal == {"done", "raised", "cancelled", "closed"}

\* a log that keeps its first MaxCmds entries
Log(log, entry) == IF Len(log) < MaxCmds THEN Append(log, entry) ELSE log

\* the runs: a reviewer given by user name with the output piped, and one
\* given by email address with the output on a terminal
Runs == {[reviewer |-> NameAlice, terminal |-> FALSE],
         [reviewer |-> MailAlice, terminal |-> TRUE]}

\* no function is called on its own
NoCall == [fn |-> "none"]

\* the two clients are not run side by side
NoPair == [none |-> TRUE]

\* no client object with two traversals
NoObj == [none |-> TRUE]

\* the state before main starts asyncio.run, for a reviewer and a kind of output
InitRun(run) ==
    /\ pc = "init"
    /\ client = "none"
    /\ count = 0
    /\ prior_count = 0
    /\ query_cmd = NoCmd
    /\ line = NoLine
    /\ nlines = 0
    /\ exit_status = NotExited
    /\ patchset = NoRecord
    /\ todo = <<>>
    /\ stream = <<>>
    /\ username = run.reviewer
    /\ color = run.terminal
    /\ cmds = <<>>
    /\ sums = <<>>
    /\ rowTotal = 0
    /\ served = <<>>
    /\ yielded = <<>>
    /\ exc = "none"
    /\ stderr = <<>>
    /\ returned = FALSE

Init ==
    /\ \E run \in Runs : InitRun(run)
    /\ call = NoCall
    /\ pair = NoPair
    /\ obj = NoObj

(***************************************************************************)
(* GerritAsyncClient.comments_query, one action for each stretch between   *)
(* two points where the generator waits or yields.                         *)
(***************************************************************************)
\* a faulty exit: the connection is left as it is
aexitLeak(c) == c

\* leaving "async with self": __aexit__ closes the connection and waits
aexit(c) == "closed"

\* async with self as ssh_client: __aenter__ connects, or raises
Connect ==
    /\ pc = "init"
    /\ \/ /\ client' = "open"
          /\ count' = 0
          /\ pc' = "cmd"
          /\ UNCHANGED exc
       \/ /\ pc' = "raised"
          /\ exc' = "OSError"
          /\ UNCHANGED <<client, count>>
    /\ UNCHANGED <<prior_count, query_cmd, line, nlines, exit_status, patchset,
                   todo, stream, username, color, cmds, sums, rowTotal,
                   served, yielded, stderr, returned>>
    /\ UNCHANGED sideVars

\* the top of the while loop: build the command and create the process
Exec ==
    /\ pc = "cmd"
    /\ LET cmd == QueryCmd(q_str(Query(username, Project)), count)
       IN /\ query_cmd' = cmd
          /\ cmds' = Log(cmds, cmd)
          /\ sums' = Log(sums, rowTotal)
    /\ \/ /\ pc' = "read"
          /\ prior_count' = count
          /\ line' = NoLine
          /\ nlines' = 0
          /\ exit_status' = NotExited
          /\ UNCHANGED <<client, exc>>
       \/ /\ pc' = "raised"
          /\ client' = aexit(client)
          /\ exc' = "OSError"
          /\ UNCHANGED <<prior_count, line, nlines, exit_status>>
    /\ UNCHANGED <<count, patchset, todo, stream, username, color, rowTotal,
                   served, yielded, stderr, returned>>
    /\ UNCHANGED sideVars

\* the lines the server may send next, within the bounds of the model
Sendable(l) ==
    /\ l \in ContentLines => Len(served) < MaxYield
    /\ (l \in StatsLines /\ "moreChanges" \in DOMAIN l.json /\ l.json.moreChanges)
           => (count + l.json.rowCount) \in (0 - 1)..MaxCount

\* one turn of "async for line in output.stdout" with a line to read
ReadLine ==
    /\ pc = "read"
    /\ nlines < MaxLines
    /\ \E l \in Lines :
        /\ Sendable(l)
        /\ line' = l
        /\ nlines' = nlines + 1
        /\ served' = IF l \in ContentLines THEN Append(served, l.json) ELSE served
        /\ rowTotal' = IF l \in StatsLines THEN rowTotal + l.json.rowCount
                       ELSE rowTotal
        /\ LET record == load_patchset(l)
           IN IF record = JSONDecodeError
              THEN /\ pc' = "raised"
                   /\ client' = aexit(client)
                   /\ exc' = "JSONDecodeError"
                   /\ UNCHANGED <<count, patchset, todo, yielded>>
              ELSE IF IsStats(record)
              THEN /\ IF ~MoreChanges(record)
                      THEN /\ pc' = "done"
                           /\ client' = aexit(client)
                           /\ UNCHANGED count
                      ELSE /\ count' = AddRowCount(count, record)
                           /\ UNCHANGED <<pc, client>>
                   /\ UNCHANGED <<patchset, todo, yielded, exc>>
              ELSE /\ yielded' = Append(yielded, record)
                   /\ patchset' = record
                   /\ todo' = extract_comments(record, username)
                   /\ pc' = "yield"
                   /\ UNCHANGED <<client, count, exc>>
    /\ UNCHANGED <<prior_count, query_cmd, exit_status, stream, username,
                   color, cmds, sums, stderr, returned>>
    /\ UNCHANGED sideVars

\* the stream is exhausted; the command has exited with some status, which
\* nothing reads; then the test of line 163
EndOfStream ==
    /\ pc = "read"
    /\ line' = EOF
    /\ \E st \in ExitStatuses : exit_status' = st
    /\ IF NoProgress(count, prior_count)
       THEN /\ pc' = "done"
            /\ client' = aexit(client)
       ELSE /\ pc' = "cmd"
            /\ UNCHANGED client
    /\ UNCHANGED <<count, prior_count, query_cmd, nlines, patchset, todo,
                   stream, username, color, cmds, sums, rowTotal, served,
                   yielded, exc, stderr, returned>>
    /\ UNCHANGED sideVars

\* reading the stream fails (the connection is lost)
ReadError ==
    /\ pc = "read"
    /\ pc' = "raised"
    /\ client' = aexit(client)
    /\ exc' = "OSError"
    /\ UNCHANGED <<count, prior_count, query_cmd, line, nlines, exit_status,
                   patchset, todo, stream, username, color, cmds, sums,
                   rowTotal, served, yielded, stderr, returned>>
    /\ UNCHANGED sideVars

\* the task is cancelled while the generator waits (connecting, creating the
\* process, reading a line): CancelledError unwinds the generator
Cancel ==
    /\ pc \in {"init", "cmd", "read"}
    /\ pc' = "cancelled"
    /\ client' = IF pc = "init" THEN client ELSE aexit(client)
    /\ exc' = "KeyboardInterrupt"
    /\ UNCHANGED <<count, prior_count, query_cmd, line, nlines, exit_status,
                   patchset, todo, stream, username, color, cmds, sums,
                   rowTotal, served, yielded, stderr, returned>>
    /\ UNCHANGED sideVars

(***************************************************************************)
(* write_all_comments: the consumer of the generator.                      *)
(***************************************************************************)
\* a faulty consumer: asks for the next record before the loop is over
RecordDoneEager(comments) == TRUE

\* the inner loop of write_all_comments has no comment left
RecordDone(comments) == comments = <<>>

\* a faulty sink: each write replaces what was written
writeOver(out, text) == <<text>>

\* stream.write(text): the text goes after what was written
write(out, text) == Append(out, text)

\* stream.write(format_comment(patchset, comment, color))
WriteComment ==
    /\ pc = "yield"
    /\ todo # <<>>
    /\ stream' = write(stream, format_comment(patchset, Head(todo), color))
    /\ todo' = Tail(todo)
    /\ UNCHANGED <<driverVars, patchset, username, color, exc, stderr,
                   returned>>
    /\ UNCHANGED sideVars

\* the inner loop is over: "async for" asks the generator for the next record
Resume ==
    /\ pc = "yield"
    /\ RecordDone(todo)
    /\ pc' = "read"
    /\ patchset' = NoRecord
    /\ todo' = <<>>
    /\ UNCHANGED <<client, count, prior_count, query_cmd, line, nlines,
                   exit_status, stream, username, color, cmds, sums, rowTotal,
                   served, yielded, exc, stderr, returned>>
    /\ UNCHANGED sideVars

\* what may be raised in the consumer between two awaits: a comment lacks a
\* field, or the interrupt signal is delivered as an exception there
ConsumerErrors == {"KeyError", "KeyboardInterrupt"}

\* the consumer raises while it holds a record: the generator is left
\* suspended at its yield
Abandon ==
    /\ pc = "yield"
    /\ pc' = "abandoned"
    /\ \E e \in ConsumerErrors : exc' = e
    /\ UNCHANGED <<client, count, prior_count, query_cmd, line, nlines,
                   exit_status, patchset, todo, stream, username, color, cmds,
                   sums, rowTotal, served, yielded, stderr, returned>>
    /\ UNCHANGED sideVars

\* asyncio.run closes the abandoned generator: GeneratorExit at the yield
\* unwinds both "async with" blocks
Aclose ==
    /\ pc = "abandoned"
    /\ pc' = "closed"
    /\ client' = aexit(client)
    /\ UNCHANGED <<count, prior_count, query_cmd, line, nlines, exit_status,
                   patchset, todo, stream, username, color, cmds, sums,
                   rowTotal, served, yielded, exc, stderr, returned>>
    /\ UNCHANGED sideVars

(***************************************************************************)
(* main: the try statement around asyncio.run.                             *)
(***************************************************************************)
\* a faulty main: a single "except BaseException" clause that reports
ReportsAll(e) == e # "none"

\* the except clause that writes to sys.stderr is entered: the exception is
\* an Exception, which KeyboardInterrupt is not
Reports(e) == e \notin {"none", "KeyboardInterrupt"}

\* str(exc) + '\n'
Message(e) == <<e, "\n">>

\* asyncio.run has returned or raised: the except clauses of main, then
\* main goes on to its return statement
MainExcept ==
    /\ pc \in Terminal
    /\ ~returned
    /\ stderr' = IF Reports(exc) THEN stderr \o Message(exc) ELSE stderr
    /\ returned' = TRUE
    /\ UNCHANGED <<driverVars, patchset, todo, stream, username, color, exc>>
    /\ UNCHANGED sideVars

Next ==
    \/ Connect
    \/ Exec
    \/ ReadLine
    \/ EndOfStream
    \/ ReadError
    \/ Cancel
    \/ WriteComment
    \/ Resume
    \/ Abandon
    \/ Aclose
    \/ MainExcept

Spec == Init /\ [][Next]_vars

\* one run is enough where the question is whether the traversal ends: the
\* reviewer and the kind of output decide what is written, not which steps
\* the driver takes
LiveInit ==
    /\ InitRun([reviewer |-> NameAlice, terminal |-> FALSE])
    /\ call = NoCall
    /\ pair = NoPair
    /\ obj = NoObj

\* the single task keeps running while it has a step to take
LiveSpec == LiveInit /\ [][Next]_vars /\ WF_vars(Next)

(***************************************************************************)
(* user_match and extract_comments called on their own, as a program that  *)
(* imports the module calls them: any user, any record, and for the filter *)
(* None, the empty string, a user name or an email address.                *)
(***************************************************************************)
\* the empty string
Empty == <<>>

\* users that lack a field, and one whose user name is an address
UNameOnly   == [username |-> NameAlice]
UMailOnly   == [email |-> MailAlice]
UMailAsName == [username |-> MailAlice]
UAnonymous  == [name |-> <<"A">>]

Users == {UAlice, UBob, UNameOnly, UMailOnly, UMailAsName, UAnonymous}

\* the values of username (user_match) and author (extract_comments)
Filters == {None, Empty, NameAlice, MailAlice, NameBob, MailBob}

\* a change whose owner has no email field; bob rebases and comments, the
\* owner replies, alice comments
P4 == [url |-> "u4", owner |-> UNameOnly,
       comments |-> << [reviewer |-> UBob, message |-> MsgRebase, timestamp |-> 6],
                       [reviewer |-> UBob, message |-> MsgNit, timestamp |-> 7],
                       [reviewer |-> UNameOnly, message |-> MsgReply, timestamp |-> 8],
                       [reviewer |-> UAlice, message |-> MsgLgtm, timestamp |-> 9] >>]

\* the calls made; result is empty until the function has returned, and
\* then holds the value returned
Calls ==
    {[fn |-> "user_match", user |-> u, username |-> f, result |-> <<>>] :
        u \in Users, f \in Filters}
    \cup {[fn |-> "extract_comments", patchset |-> p, author |-> f, result |-> <<>>] :
        p \in Patchsets \cup {P4}, f \in Filters}

CallInit ==
    /\ InitRun([reviewer |-> NameAlice, terminal |-> FALSE])
    /\ call \in Calls
    /\ pair = NoPair
    /\ obj = NoObj

\* user_match(user, username) returns
CallUserMatch ==
    /\ call.fn = "user_match"
    /\ call.result = <<>>
    /\ call' = [call EXCEPT !.result = <<user_match(call.user, call.username)>>]
    /\ UNCHANGED <<runVars, pair, obj>>

\* list(extract_comments(patchset, author)) returns
CallExtractComments ==
    /\ call.fn = "extract_comments"
    /\ call.result = <<>>
    /\ call' = [call EXCEPT
                   !.result = <<extract_comments(call.patchset, call.author)>>]
    /\ UNCHANGED <<runVars, pair, obj>>

CallNext ==
    \/ CallUserMatch
    \/ CallExtractComments

CallSpec == CallInit /\ [][CallNext]_vars

(***************************************************************************)
(* The two clients side by side: GerritClient.comments_query and           *)
(* GerritAsyncClient.comments_query, each on a client object of its own,   *)
(* given the same query and fed the same answers by the server. A          *)
(* traversal is a record: where its generator stands, its connection, its  *)
(* count and prior_count, the commands it issued and the records it        *)
(* yielded.                                                                *)
(***************************************************************************)
\* a generator that has not run yet
NewTraversal ==
    [pc |-> "init", client |-> "none", count |-> 0, prior_count |-> 0,
     cmds |-> <<>>, yielded |-> <<>>]

\* GerritClient.__exit__: self.client.close()
exit(c) == "closed"

\* with self as ssh_client: __enter__ connects the paramiko client, or raises
SyncEnter(t, ok) ==
    IF ok THEN [t EXCEPT !.client = "open", !.count = 0, !.pc = "cmd"]
    ELSE [t EXCEPT !.pc = "raised"]

\* lines 72-80: build the command, exec_command, prior_count = count
SyncExec(t, query, ok) ==
    LET cmd == QueryCmd(q_str(query), t.count)
    IN IF ok
       THEN [t EXCEPT !.cmds = Log(@, cmd), !.prior_count = t.count,
                      !.pc = "read"]
       ELSE [t EXCEPT !.cmds = Log(@, cmd), !.client = exit(@),
                      !.pc = "raised"]

\* one turn of "for record in map(load_patchset, stdout)", lines 81-87
SyncLine(t, l) ==
    LET record == load_patchset(l)
    IN IF record = JSONDecodeError
       THEN [t EXCEPT !.client = exit(@), !.pc = "raised"]
       ELSE IF IsStats(record)
       THEN IF ~MoreChanges(record)
            THEN [t EXCEPT !.client = exit(@), !.pc = "done"]
            ELSE [t EXCEPT !.count = AddRowCount(@, record)]
       ELSE [t EXCEPT !.yielded = Append(@, record), !.pc = "yield"]

\* a faulty end of page: the safety stop of line 88 is missing
SyncEOFGoesOn(t) == [t EXCEPT !.pc = "cmd"]

\* stdout is exhausted: the test of line 88
SyncEOF(t) ==
    IF NoProgress(t.count, t.prior_count)
    THEN [t EXCEPT !.client = exit(@), !.pc = "done"]
    ELSE [t EXCEPT !.pc = "cmd"]

\* the consumer asks the generator for its next record
SyncResume(t) == [t EXCEPT !.pc = "read"]

\* async with self as ssh_client: __aenter__ connects, or raises
AsyncEnter(t, ok) ==
    IF ok THEN [t EXCEPT !.client = "open", !.count = 0, !.pc = "cmd"]
    ELSE [t EXCEPT !.pc = "raised"]

\* lines 147-154: build the command, create_process, prior_count = count
AsyncExec(t, query, ok) ==
    LET cmd == QueryCmd(q_str(query), t.count)
    IN IF ok
       THEN [t EXCEPT !.cmds = Log(@, cmd), !.prior_count = t.count,
                      !.pc = "read"]
       ELSE [t EXCEPT !.cmds = Log(@, cmd), !.client = aexit(@),
                      !.pc = "raised"]

\* one turn of "async for line in output.stdout", lines 155-162
AsyncLine(t, l) ==
    LET record == load_patchset(l)
    IN IF record = JSONDecodeError
       THEN [t EXCEPT !.client = aexit(@), !.pc = "raised"]
       ELSE IF IsStats(record)
       THEN IF ~MoreChanges(record)
            THEN [t EXCEPT !.client = aexit(@), !.pc = "done"]
            ELSE [t EXCEPT !.count = AddRowCount(@, record)]
       ELSE [t EXCEPT !.yielded = Append(@, record), !.pc = "yield"]

\* output.stdout is exhausted: the test of line 163
AsyncEOF(t) ==
    IF NoProgress(t.count, t.prior_count)
    THEN [t EXCEPT !.client = aexit(@), !.pc = "done"]
    ELSE [t EXCEPT !.pc = "cmd"]

\* the consumer asks the generator for its next record
AsyncResume(t) == [t EXCEPT !.pc = "read"]

\* the traversal takes the step if it stands where the step applies
On(t, where, stepped) == IF t.pc = where THEN stepped ELSE t

\* some traversal of the pair stands there
Some(where) == pair.sync.pc = where \/ pair.async.pc = where

\* the queries: a reviewer by user name, a reviewer by address
Queries == {Query(NameAlice, Project), Query(MailAlice, Project)}

\* nlines, sent and rows are the server's: lines sent in this page, content
\* records sent, sum of the rowCount of the continuing control records sent
PairInit ==
    /\ InitRun([reviewer |-> NameAlice, terminal |-> FALSE])
    /\ call = NoCall
    /\ \E q \in Queries :
           pair = [sync |-> NewTraversal, async |-> NewTraversal, query |-> q,
                   nlines |-> 0, sent |-> 0, rows |-> 0]
    /\ obj = NoObj

\* both clients connect to the same server, which is there for both or not
PairEnter ==
    /\ Some("init")
    /\ \E ok \in BOOLEAN :
           pair' = [pair EXCEPT
                      !.sync = On(@, "init", SyncEnter(@, ok)),
                      !.async = On(@, "init", AsyncEnter(@, ok))]
    /\ UNCHANGED <<runVars, call, obj>>

\* both issue their command; the server takes it from both or from none
PairExec ==
    /\ Some("cmd")
    /\ \E ok \in BOOLEAN :
           pair' = [pair EXCEPT
                      !.sync = On(@, "cmd", SyncExec(@, pair.query, ok)),
                      !.async = On(@, "cmd", AsyncExec(@, pair.query, ok)),
                      !.nlines = 0]
    /\ UNCHANGED <<runVars, call, obj>>

\* the lines the server may send next, within the bounds of the model
PairSendable(l) ==
    /\ l \in ContentLines => pair.sent < MaxYield
    /\ (l \in StatsLines /\ "moreChanges" \in DOMAIN l.json /\ l.json.moreChanges)
           => (pair.rows + l.json.rowCount) \in (0 - 1)..MaxCount

\* the server sends the same line to both
PairLine ==
    /\ Some("read")
    /\ pair.nlines < MaxLines
    /\ \E l \in Lines :
        /\ PairSendable(l)
        /\ pair' = [pair EXCEPT
                      !.sync = On(@, "read", SyncLine(@, l)),
                      !.async = On(@, "read", AsyncLine(@, l)),
                      !.nlines = @ + 1,
                      !.sent = IF l \in ContentLines THEN @ + 1 ELSE @,
                      !.rows = IF l \in StatsLines /\ "moreChanges" \in DOMAIN l.json
                                  /\ l.json.moreChanges
                               THEN @ + l.json.rowCount ELSE @]
    /\ UNCHANGED <<runVars, call, obj>>

\* the output of the command ends for both
PairEOF ==
    /\ Some("read")
    /\ pair' = [pair EXCEPT
                  !.sync = On(@, "read", SyncEOF(@)),
                  !.async = On(@, "read", AsyncEOF(@))]
    /\ UNCHANGED <<runVars, call, obj>>

\* the consumers ask for the next record
PairResume ==
    /\ Some("yield")
    /\ pair' = [pair EXCEPT
                  !.sync = On(@, "yield", SyncResume(@)),
                  !.async = On(@, "yield", AsyncResume(@))]
    /\ UNCHANGED <<runVars, call, obj>>

PairNext ==
    \/ PairEnter
    \/ PairExec
    \/ PairLine
    \/ PairEOF
    \/ PairResume

PairSpec == PairInit /\ [][PairNext]_vars

(***************************************************************************)
(* Two traversals of one GerritAsyncClient object, interleaved at their    *)
(* awaits and yields. The object holds one attribute, self.client; each    *)
(* generator holds its own ssh_client, count and prior_count. The lines of *)
(* a page are taken together here: a page adds some rows to the offset or  *)
(* none, or ends the sequence.                                             *)
(***************************************************************************)
\* the two generators
Traversals == {1, 2}

\* no connection: self.client before the first __aenter__, ssh_client before
\* the generator has entered its "async with"
NoConn == 0

\* asyncssh.connect gives a new connection, open
Connected(conns) == Append(conns, "open")

\* __aexit__: self.client.close(), on whatever self.client is by now
aexitSelf(o) == [o EXCEPT !.conns[o.self_client] = "closed"]

\* the object after __init__ and two calls of comments_query, neither
\* generator started
TwoInit ==
    /\ InitRun([reviewer |-> NameAlice, terminal |-> FALSE])
    /\ call = NoCall
    /\ pair = NoPair
    /\ obj = [self_client |-> NoConn,
              conns |-> <<>>,
              trav |-> [i \in Traversals |->
                          [pc |-> "init", ssh_client |-> NoConn, count |-> 0,
                           prior_count |-> 0]]]

\* async with self as ssh_client: __aenter__ sets self.client and returns it
TwoEnter(i) ==
    /\ obj.trav[i].pc = "init"
    /\ \/ LET id == Len(obj.conns) + 1
          IN obj' = [obj EXCEPT !.conns = Connected(@),
                                !.self_client = id,
                                !.trav[i].ssh_client = id,
                                !.trav[i].count = 0,
                                !.trav[i].pc = "cmd"]
       \/ obj' = [obj EXCEPT !.trav[i].pc = "raised"]
    /\ UNCHANGED <<runVars, call, pair>>

\* the top of the loop: create_process on ssh_client, which raises when that
\* connection is closed
TwoExec(i) ==
    /\ obj.trav[i].pc = "cmd"
    /\ IF obj.conns[obj.trav[i].ssh_client] = "open"
       THEN obj' = [obj EXCEPT !.trav[i].prior_count = obj.trav[i].count,
                               !.trav[i].pc = "read"]
       ELSE obj' = [aexitSelf(obj) EXCEPT
                               !.trav[i].pc = "raised"]
    /\ UNCHANGED <<runVars, call, pair>>

\* a control record with moreChanges true is read: count += rowCount
TwoAdvance(i) ==
    /\ obj.trav[i].pc = "read"
    /\ obj.conns[obj.trav[i].ssh_client] = "open"
    /\ \E n \in RowCounts :
        /\ (obj.trav[i].count + n) \in 0..MaxCount
        /\ obj' = [obj EXCEPT !.trav[i].count = @ + n]
    /\ UNCHANGED <<runVars, call, pair>>

\* the page ends: the test of line 163
TwoEndOfStream(i) ==
    /\ obj.trav[i].pc = "read"
    /\ obj.conns[obj.trav[i].ssh_client] = "open"
    /\ IF NoProgress(obj.trav[i].count, obj.trav[i].prior_count)
       THEN obj' = [aexitSelf(obj) EXCEPT
                               !.trav[i].pc = "done"]
       ELSE obj' = [obj EXCEPT !.trav[i].pc = "cmd"]
    /\ UNCHANGED <<runVars, call, pair>>

\* a control record with moreChanges false or absent is read: return
TwoReturn(i) ==
    /\ obj.trav[i].pc = "read"
    /\ obj.conns[obj.trav[i].ssh_client] = "open"
    /\ obj' = [aexitSelf(obj) EXCEPT
                               !.trav[i].pc = "done"]
    /\ UNCHANGED <<runVars, call, pair>>

\* reading from a connection that was closed raises
TwoLost(i) ==
    /\ obj.trav[i].pc = "read"
    /\ obj.conns[obj.trav[i].ssh_client] = "closed"
    /\ obj' = [aexitSelf(obj) EXCEPT
                               !.trav[i].pc = "raised"]
    /\ UNCHANGED <<runVars, call, pair>>

TwoNext ==
    \E i \in Traversals :
        \/ TwoEnter(i)
        \/ TwoExec(i)
        \/ TwoAdvance(i)
        \/ TwoEndOfStream(i)
        \/ TwoReturn(i)
        \/ TwoLost(i)

TwoSpec == TwoInit /\ [][TwoNext]_vars

(***************************************************************************)
(* Definitions the properties share.                                       *)
(***************************************************************************)
\* the last line read is a control record that lets the query go on
TrailerGoesOn ==
    /\ line \in StatsLines
    /\ "moreChanges" \in DOMAIN line.json
    /\ line.json.moreChanges

\* the last line read is a control record that ends the sequence
TrailerEnds == line \in StatsLines /\ ~TrailerGoesOn

\* the --start offsets of the logged commands
Starts == [k \in 1..Len(cmds) |-> cmds[k].start]

\* the blocks of one record, as the run's reviewer and colour give them
BlocksOf(p) ==
    LET comments == extract_comments(p, username)
    IN [i \in 1..Len(comments) |-> format_comment(p, comments[i], color)]

RECURSIVE BlocksOfAll(_)
\* the blocks of a sequence of records, record after record
BlocksOfAll(records) ==
    IF records = <<>> THEN <<>>
    ELSE BlocksOf(Head(records)) \o BlocksOfAll(Tail(records))

(***************************************************************************)
(* C1. When a control record of the first page has moreChanges false or    *)
(* absent, exactly one command has been issued, it carries --start=0, and  *)
(* the sequence has ended without error with the connection closed; once   *)
(* ended, no command follows.                                              *)
(***************************************************************************)
C1_OnePage ==
    /\ [](TrailerEnds /\ Len(cmds) = 1 =>
            /\ pc = "done"
            /\ Starts = <<0>>
            /\ query_cmd.start = 0
            /\ client = "closed")
    /\ [][pc = "done" => UNCHANGED <<pc, cmds, query_cmd>>]_vars

\* the first line of the first page is a trailer without moreChanges
C1_Witness ==
    /\ pc = "done"
    /\ Len(cmds) = 1
    /\ nlines = 1
    /\ line \in StatsLines
    /\ "moreChanges" \notin DOMAIN line.json

(***************************************************************************)
(* C2. The first command carries --start=0 and every later command carries *)
(* the sum of the rowCount of all control records sent in the pages before *)
(* it.                                                                     *)
(***************************************************************************)
C2_StartIsSum ==
    /\ Len(cmds) = Len(sums)
    /\ \A k \in 1..Len(cmds) : cmds[k].start = sums[k]
    /\ Len(cmds) >= 1 => cmds[1].start = 0
    /\ (pc = "read" /\ nlines = 0) => query_cmd.start = rowTotal

\* a second command at offset 2 after a page whose trailers sum to 2
C2_Witness == Len(cmds) = 2 /\ Starts = <<0, 2>> /\ pc = "read"

(***************************************************************************)
(* C3. A page that ends with the offset where it was ends the sequence     *)
(* without error and no command follows; the driver stands before a        *)
(* further command only after a page that ended with the offset changed,   *)
(* and never after a trailer that ends the sequence.                       *)
(***************************************************************************)
C3_NoProgressStops ==
    /\ (line = EOF /\ count = prior_count) => (pc = "done" /\ client = "closed")
    /\ (pc = "cmd" /\ query_cmd # NoCmd) => (line = EOF /\ count # prior_count)
    /\ TrailerEnds => pc = "done"
    /\ \A k \in 1..(Len(cmds) - 1) : cmds[k + 1].start # cmds[k].start

\* a first page of one trailer with moreChanges true and rowCount 0
C3_Witness ==
    /\ pc = "done"
    /\ line = EOF
    /\ Len(cmds) = 1
    /\ nlines = 1
    /\ served = <<>>
    /\ count = 0

(***************************************************************************)
(* C4. The records yielded are the content records the server sent, in     *)
(* page order and line order, each once; a record is in the consumer's     *)
(* hands exactly while the driver stands at its yield.                     *)
(***************************************************************************)
C4_YieldedIsServed ==
    /\ yielded = served
    /\ pc = "yield" => (yielded # <<>> /\ patchset = yielded[Len(yielded)])

\* two pages, a record in each, the second command at offset 1
C4_Witness ==
    /\ pc = "done"
    /\ Starts = <<0, 1>>
    /\ yielded = <<P1, P3>>
    /\ TrailerEnds

(***************************************************************************)
(* C5, as claimed. The offset counter never decreases between two steps,   *)
(* whatever rowCount the control records carry.                            *)
(***************************************************************************)
C5_NeverDecreases == [][count' >= count]_vars

(***************************************************************************)
(* C5, amended. The offset counter changes only in the step that reads a   *)
(* control record with moreChanges true, and then by exactly that record's *)
(* rowCount: it does not decrease when that rowCount is not negative, and  *)
(* it decreases when it is.                                                *)
(***************************************************************************)
C5_ChangesByRowCount ==
    [][/\ count' # count =>
            /\ pc = "read"
            /\ nlines' = nlines + 1
            /\ line' \in StatsLines
            /\ "moreChanges" \in DOMAIN line'.json
            /\ line'.json.moreChanges
            /\ count' = count + line'.json.rowCount
       /\ count' < count => line'.json.rowCount < 0]_vars

\* a control record with rowCount 2 has just moved the offset from 0 to 2
C5_Witness ==
    /\ pc = "read"
    /\ TrailerGoesOn
    /\ line.json.rowCount = 2
    /\ prior_count = 0
    /\ count = 2

(***************************************************************************)
(* C6, as claimed. Every traversal that is consumed to its end eventually  *)
(* ends.                                                                   *)
(***************************************************************************)
C6_AlwaysEnds == <>(pc \in Terminal)

(***************************************************************************)
(* C6, amended. Every traversal that is consumed to its end eventually     *)
(* ends, unless the server goes on for ever sending pages that change the  *)
(* offset and never a trailer that ends the sequence; then the driver      *)
(* comes back to the top of its loop again and again, each time after a    *)
(* page that changed the offset.                                           *)
(***************************************************************************)
C6_EndsOrAdvances ==
    <>(pc \in Terminal) \/ []<>(pc = "cmd" /\ count # prior_count)

\* the safety stop after a second page that left the offset where it was
C6_Witness ==
    /\ pc = "done"
    /\ line = EOF
    /\ Len(cmds) = 2
    /\ count = prior_count

(***************************************************************************)
(* C7. However a traversal ends (end of the sequence, an exception, the    *)
(* task cancelled, the generator closed after the consumer gave it up),    *)
(* the connection it opened is closed; the connection is open whenever a   *)
(* command is issued or a page is read, no command is issued without one,  *)
(* and a closed connection stays closed with no command after it.          *)
(***************************************************************************)
C7_ConnectionScoped ==
    /\ [](/\ pc \in Terminal => client \in {"none", "closed"}
          /\ pc \in {"cmd", "read", "yield", "abandoned"} => client = "open"
          /\ client = "none" => (query_cmd = NoCmd /\ cmds = <<>>))
    /\ [][client = "closed" => UNCHANGED <<client, query_cmd, cmds>>]_vars

\* the consumer gave up a record of the second page and the generator was closed
C7_Witness ==
    /\ pc = "closed"
    /\ client = "closed"
    /\ Len(cmds) = 2
    /\ patchset # NoRecord

(***************************************************************************)
(* C8. Whenever the driver is about to read a line or to issue a command,  *)
(* every block of every record it has yielded is in the output stream;     *)
(* while a record is in the consumer's hands the stream holds the blocks   *)
(* of the records before it and those of its comments already written.     *)
(***************************************************************************)
C8_Streams ==
    /\ pc \in {"cmd", "read"} => stream = BlocksOfAll(yielded)
    /\ pc = "yield" =>
           stream \o [i \in 1..Len(todo) |-> format_comment(patchset, todo[i], color)]
               = BlocksOfAll(yielded)

\* both blocks of a record of page 1 are written, the second command is not issued
C8_Witness ==
    /\ pc = "cmd"
    /\ Len(cmds) = 1
    /\ yielded = <<P1>>
    /\ Len(stream) = 2

(***************************************************************************)
(* C9, as claimed. A transport error ends the traversal with an exception: *)
(* after a command that exited with a non-zero status the traversal has    *)
(* raised; it has not ended normally and stands before no further command. *)
(***************************************************************************)
C9_TransportErrorRaises ==
    (exit_status # NotExited /\ exit_status # 0) => pc = "raised"

(***************************************************************************)
(* C10. A line that is no JSON text ends the traversal with an exception   *)
(* at that line: the connection is closed, every record sent before it was *)
(* yielded, the stream holds exactly the blocks of those records, and      *)
(* nothing is yielded, written or issued afterwards.                       *)
(***************************************************************************)
C10_BadLineIsFatal ==
    /\ [](line = BadLine =>
            /\ pc = "raised"
            /\ client = "closed"
            /\ yielded = served
            /\ stream = BlocksOfAll(yielded))
    /\ [][line = BadLine => UNCHANGED <<pc, stream, yielded, cmds, query_cmd>>]_vars

\* garbage on the second page, after a block was written for the first
C10_Witness ==
    /\ line = BadLine
    /\ pc = "raised"
    /\ Len(cmds) = 2
    /\ stream # <<>>

\* a is a final stretch of b
IsSuffix(a, b) == Len(a) <= Len(b) /\ a = SubSeq(b, Len(b) - Len(a) + 1, Len(b))

\* a is an initial stretch of b
IsPrefix(a, b) == Len(a) <= Len(b) /\ a = SubSeq(b, 1, Len(a))

(***************************************************************************)
(* C11. Once the run is interrupted, whether cancelled at an await of the  *)
(* driver or interrupted in the consumer, nothing is written to stderr,    *)
(* the output stream holds whole blocks only, which are an initial stretch *)
(* of the blocks of the records yielded, the driver takes no further step  *)
(* of its loop, and the stream, the records yielded and the commands stay  *)
(* as they are; main returns with stderr empty.                            *)
(***************************************************************************)
C11_InterruptIsGraceful ==
    /\ [](exc = "KeyboardInterrupt" =>
            /\ stderr = <<>>
            /\ IsPrefix(stream, BlocksOfAll(yielded))
            /\ pc \in {"cancelled", "abandoned", "closed"})
    /\ [][exc = "KeyboardInterrupt" =>
            UNCHANGED <<exc, stream, yielded, cmds, stderr>>]_vars

\* interrupted in the consumer after the first of two blocks of a record;
\* the generator was closed and main has returned
C11_Witness ==
    /\ exc = "KeyboardInterrupt"
    /\ returned
    /\ pc = "closed"
    /\ Len(stream) = 1
    /\ todo # <<>>

\* the user has the field the filter selects, an address selecting email and
\* anything else username, and the field is equal to the filter
MatchesByField(user, filter) ==
    IF HasChar("@", filter)
    THEN "email" \in DOMAIN user /\ user.email = filter
    ELSE "username" \in DOMAIN user /\ user.username = filter

\* user_match has returned
UserMatchReturned == call.fn = "user_match" /\ call.result # <<>>

\* extract_comments has returned
ExtractReturned == call.fn = "extract_comments" /\ call.result # <<>>

(***************************************************************************)
(* C12, as claimed. user_match returns true for every user when the filter *)
(* is the empty string or None; for any other filter it returns whether    *)
(* the user has the field the filter selects (email for a filter with an   *)
(* '@', username otherwise) with a value equal to the filter.              *)
(***************************************************************************)
C12_EmptyOrAbsentMatchesAll ==
    UserMatchReturned =>
        call.result[1] = IF call.username \in {None, Empty} THEN TRUE
                         ELSE MatchesByField(call.user, call.username)

(***************************************************************************)
(* C13. For a record with a comments field and a filter that is neither    *)
(* None nor the empty string and that matches the record's owner by the    *)
(* field it selects, extract_comments yields no comment.                   *)
(***************************************************************************)
C13_OwnCommentsSkipped ==
    (/\ ExtractReturned
     /\ "comments" \in DOMAIN call.patchset
     /\ call.author \notin {None, Empty}
     /\ MatchesByField(call.patchset.owner, call.author))
        => call.result[1] = <<>>

\* alice's address on her own change, which holds a comment of hers
C13_Witness ==
    /\ ExtractReturned
    /\ call.patchset = P2
    /\ call.author = MailAlice
    /\ call.result[1] = <<>>

\* the comments the claim selects: by a reviewer the filter matches, every
\* reviewer for an empty or absent filter, and without the marker
Wanted(comments, filter) ==
    LET Keep(c) ==
            /\ filter \in {None, Empty} \/ MatchesByField(c.reviewer, filter)
            /\ ~Contains(TrivialRebase, c.message)
    IN SelectSeq(comments, Keep)

(***************************************************************************)
(* C14, as claimed. For a record with a comments field whose owner the     *)
(* filter does not match, extract_comments yields, in their order, exactly *)
(* the comments without the marker whose reviewer the filter matches, and  *)
(* for a filter that is None or the empty string every comment without the *)
(* marker.                                                                 *)
(***************************************************************************)
C14_YieldsMatchingComments ==
    (/\ ExtractReturned
     /\ "comments" \in DOMAIN call.patchset
     /\ \/ call.author \in {None, Empty}
        \/ ~MatchesByField(call.patchset.owner, call.author))
        => call.result[1] = Wanted(call.patchset.comments, call.author)

\* a record that the test of the driver takes for a control record
Control(record) == "type" \in DOMAIN record /\ record.type = "stats"

(***************************************************************************)
(* C15. No record yielded is a control record, and neither is the record   *)
(* the consumer holds and hands to extract_comments, although the server   *)
(* sends control records at any line of a page; every control record the   *)
(* server sent was consumed by the driver, so the records yielded are as   *)
(* many as the content records sent.                                       *)
(***************************************************************************)
C15_NoControlRecordYielded ==
    /\ \A i \in 1..Len(yielded) :
           ~Control(yielded[i]) /\ yielded[i] \notin StatsRecords
    /\ patchset # NoRecord => (~Control(patchset) /\ patchset \notin StatsRecords)
    /\ Len(yielded) = Len(served)

\* on the second page a control record came first and a content record,
\* now in the consumer's hands, after it
C15_Witness ==
    /\ pc = "yield"
    /\ Len(cmds) = 2
    /\ nlines = 2
    /\ count # prior_count
    /\ ~Control(patchset)

(***************************************************************************)
(* C16. The output stream changes only by a write of the consumer, which   *)
(* puts format_comment of the record in hand and of its next extracted     *)
(* comment after what was written; the stream is at every moment an        *)
(* initial stretch of the blocks of the yielded records in order, and the  *)
(* whole of them when the sequence has ended normally.                     *)
(***************************************************************************)
C16_WritesAreTheBlocks ==
    /\ [][stream' # stream =>
            /\ pc = "yield"
            /\ patchset = yielded[Len(yielded)]
            /\ IsSuffix(todo, extract_comments(patchset, username))
            /\ todo # <<>>
            /\ stream' = stream \o <<format_comment(patchset, Head(todo), color)>>
            /\ yielded' = yielded]_vars
    /\ [](IsPrefix(stream, BlocksOfAll(yielded)))
    /\ [](pc = "done" => stream = BlocksOfAll(yielded))

\* two records of two comments each were yielded and the sequence has ended
C16_Witness ==
    /\ pc = "done"
    /\ yielded = <<P1, P1>>
    /\ Len(stream) = 4
    /\ returned

(***************************************************************************)
(* C17. The step that reads a control record with moreChanges true adds    *)
(* its rowCount to the offset and stays in the same page, and a content    *)
(* record read after it in that page is yielded; the step that reads a     *)
(* control record with moreChanges false or absent ends the sequence       *)
(* there, without adding its rowCount, and after it nothing is read,       *)
(* yielded or issued.                                                      *)
(***************************************************************************)
C17_DecidedAtTheLine ==
    /\ [][(pc = "read" /\ nlines' = nlines + 1 /\ TrailerGoesOn') =>
            /\ pc' = "read"
            /\ query_cmd' = query_cmd
            /\ count' = count + line'.json.rowCount]_vars
    /\ [][(pc = "read" /\ TrailerGoesOn /\ line' \in ContentLines) =>
            /\ pc' = "yield"
            /\ query_cmd' = query_cmd
            /\ yielded' = Append(yielded, line'.json)]_vars
    /\ [][(pc = "read" /\ nlines' = nlines + 1 /\ TrailerEnds') =>
            /\ pc' = "done"
            /\ count' = count
            /\ yielded' = yielded]_vars
    /\ [][TrailerEnds =>
            UNCHANGED <<line, nlines, count, yielded, served, cmds, query_cmd>>]_vars

\* a control record with rowCount 2 on the first line of the first page,
\* and the content record of its second line in the consumer's hands
C17_Witness ==
    /\ pc = "yield"
    /\ Len(cmds) = 1
    /\ nlines = 2
    /\ prior_count = 0
    /\ count = 2
    /\ rowTotal = 2

(***************************************************************************)
(* C18. A command is issued only at the top of the loop, when no command   *)
(* is in flight: either it is the first, or the output of the one before   *)
(* was read to its end and that command has exited; it carries the offset  *)
(* as the control records of the pages before left it. While a page is     *)
(* read or a record is held, the command in flight is the last one issued. *)
(***************************************************************************)
C18_OnePageAtATime ==
    /\ [][query_cmd' # query_cmd =>
            /\ pc = "cmd"
            /\ query_cmd = NoCmd \/ (line = EOF /\ exit_status # NotExited)
            /\ query_cmd'.start = count
            /\ count = rowTotal]_vars
    /\ [](pc \in {"read", "yield"} =>
            /\ exit_status = NotExited
            /\ query_cmd # NoCmd
            /\ query_cmd.start = prior_count)
    /\ [](pc = "cmd" => (query_cmd = NoCmd \/ exit_status # NotExited))

\* the second command, at offset 1, is in flight and none of its output read;
\* the first page gave a record
C18_Witness ==
    /\ pc = "read"
    /\ Len(cmds) = 2
    /\ nlines = 0
    /\ query_cmd.start = 1
    /\ exit_status = NotExited
    /\ yielded # <<>>

(***************************************************************************)
(* C19. Given the same query and the same answers of the server, the       *)
(* synchronous and the asynchronous traversal stand at the same place      *)
(* after every step: they issued the same commands, yielded the same       *)
(* records, hold the same offsets, and have ended, or not, in the same     *)
(* way with their connections in the same state.                           *)
(***************************************************************************)
C19_SameProtocol ==
    /\ pair.sync.cmds = pair.async.cmds
    /\ pair.sync.yielded = pair.async.yielded
    /\ pair.sync.pc = pair.async.pc
    /\ pair.sync.count = pair.async.count
    /\ pair.sync.prior_count = pair.async.prior_count
    /\ pair.sync.client = pair.async.client

\* both ended at the safety stop of a second page, after yielding a record
C19_Witness ==
    /\ pair.sync.pc = "done"
    /\ pair.async.pc = "done"
    /\ Len(pair.sync.cmds) = 2
    /\ pair.sync.yielded # <<>>
    /\ pair.nlines = 0

\* the connection traversal i entered with
Own(i) == obj.conns[obj.trav[i].ssh_client]

\* traversal i has entered its "async with self"
Entered(i) == obj.trav[i].ssh_client # NoConn

(***************************************************************************)
(* C20, as claimed. Two interleaved traversals of one client object share  *)
(* nothing: each starts at offset 0 with a connection of its own; a step   *)
(* of one leaves the other's offset and the other's connection as they     *)
(* are, so a traversal that is issuing commands or reading has its         *)
(* connection open; and a traversal that has ended has closed the          *)
(* connection it opened.                                                   *)
(***************************************************************************)
C20_TraversalsShareNothing ==
    /\ [](\A i \in Traversals :
            /\ (Entered(1) /\ Entered(2)) =>
                   obj.trav[1].ssh_client # obj.trav[2].ssh_client
            /\ obj.trav[i].pc \in {"cmd", "read"} => Own(i) = "open"
            /\ (obj.trav[i].pc \in {"done", "raised"} /\ Entered(i)) =>
                   Own(i) = "closed")
    /\ [][\A i \in Traversals :
            (obj.trav[i].pc = "init" /\ obj'.trav[i].pc = "cmd") =>
                obj'.trav[i].count = 0]_vars
    /\ [][\A i, j \in Traversals :
            (i # j /\ obj'.trav[j] # obj.trav[j]) =>
                /\ obj'.trav[i] = obj.trav[i]
                /\ Entered(i) => obj'.conns[obj.trav[i].ssh_client] = Own(i)]_vars

=============================================================================
